---- MODULE Spec2Model ----
(***************************************************************************)
(* Model of apache-mod-status-parser: src/main.rs reads an HTML document,  *)
(* src/parser.rs locates the rows of the border-0 table, validates the     *)
(* header row and decodes every following row into a WorkerScore.          *)
(*                                                                         *)
(* Text is a sequence of characters, each character a string (the          *)
(* character itself, or its code point beyond ASCII).  A row is the        *)
(* sequence of its child nodes; a child node is a record [name, text]      *)
(* (name "td", "th" or "#text").                                           *)
(***************************************************************************)
EXTENDS Integers, Sequences, FiniteSets, TLC

(***************************************************************************)
(* Bounds of the model.                                                    *)
(***************************************************************************)
MaxRows == 3
MaxTables == 2
MaxHeaderCells == 16
MaxCells == 16
MaxStatusLen == 2

(***************************************************************************)
(* Characters and Result values.                                           *)
(***************************************************************************)
Digits == <<"0", "1", "2", "3", "4", "5", "6", "7", "8", "9">>

IsDigit(c) == \E d \in 1..10 : Digits[d] = c

DigitVal(c) == (CHOOSE d \in 1..10 : Digits[d] = c) - 1

\* char::is_whitespace restricted to the whitespace the model draws
IsWhitespace(c) == c \in {" ", "\n", "\t"}

\* Characters whose UTF-8 encoding takes two bytes (U+0080..U+07FF), written
\* by code point: e with acute accent and sharp s
TwoByteChars == {"U+00E9", "U+00DF"}

\* char::len_utf8
Utf8Len(c) == IF c \in TwoByteChars THEN 2 ELSE 1

RECURSIVE ByteLen(_)
\* str::len: the length of the text in bytes
ByteLen(s) == IF s = <<>> THEN 0 ELSE Utf8Len(Head(s)) + ByteLen(Tail(s))

Ok(v) == [tag |-> "Ok", val |-> v]

Err(e) == [tag |-> "Err", err |-> e]

IsOk(r) == r.tag = "Ok"

IsErr(r) == r.tag = "Err"

\* WorkerScoreParseError variants; arg is the payload as a sequence of strings
InvalidHeaders == [kind |-> "InvalidHeaders", arg |-> <<>>]

InvalidCellCount(html) == [kind |-> "InvalidCellCount", arg |-> html]

StatusCodeMustBeChar(s) == [kind |-> "StatusCodeMustBeChar", arg |-> s]

InvalidStatusCode(c) == [kind |-> "InvalidStatusCode", arg |-> <<c>>]

AccessCountsInvalidFieldCount(s) == [kind |-> "AccessCountsInvalidFieldCount", arg |-> s]

SrvFieldUnknownFormat(s) == [kind |-> "SrvFieldUnknownFormat", arg |-> s]

ParseFloatError(k) == [kind |-> "ParseFloatError", arg |-> <<k>>]

ParseIntError(k) == [kind |-> "ParseIntError", arg |-> <<k>>]

(***************************************************************************)
(* str::trim, str::split                                                   *)
(***************************************************************************)
RECURSIVE TrimStart(_)
TrimStart(s) ==
    IF s # <<>> /\ IsWhitespace(Head(s)) THEN TrimStart(Tail(s)) ELSE s

RECURSIVE TrimEnd(_)
TrimEnd(s) ==
    IF s # <<>> /\ IsWhitespace(s[Len(s)])
    THEN TrimEnd(SubSeq(s, 1, Len(s) - 1))
    ELSE s

\* td.text().trim()
Trim(s) == TrimEnd(TrimStart(s))

RECURSIVE SplitAcc(_, _, _)
SplitAcc(s, sep, cur) ==
    IF s = <<>> THEN <<cur>>
    ELSE IF Head(s) = sep THEN <<cur>> \o SplitAcc(Tail(s), sep, <<>>)
    ELSE SplitAcc(Tail(s), sep, Append(cur, Head(s)))

\* s.split(sep).collect()
Split(s, sep) == SplitAcc(s, sep, <<>>)

(***************************************************************************)
(* str::parse for i32, u32 and f32                                         *)
(***************************************************************************)
I32Max == 2147483647
Limb == 65536

RECURSIVE ParseDigitsI32(_, _, _)
\* the checked digit loop of i32::from_str: left to right, the first error
\* wins; a negative number is accumulated downwards.  The overflow test is
\* made before the multiplication so that no intermediate value leaves 32 bits
ParseDigitsI32(s, acc, neg) ==
    IF s = <<>> THEN Ok(acc)
    ELSE IF ~IsDigit(Head(s)) THEN Err(ParseIntError("InvalidDigit"))
    ELSE LET d == DigitVal(Head(s))
         IN  IF neg
             THEN IF -acc > (IF d = 0 THEN I32Max ELSE I32Max - (d - 1)) \div 10
                  THEN Err(ParseIntError("NegOverflow"))
                  ELSE ParseDigitsI32(Tail(s), acc * 10 - d, neg)
             ELSE IF acc > (I32Max - d) \div 10
                  THEN Err(ParseIntError("PosOverflow"))
                  ELSE ParseDigitsI32(Tail(s), acc * 10 + d, neg)

\* str::parse::<i32>
ParseI32(s) ==
    IF s = <<>> THEN Err(ParseIntError("Empty"))
    ELSE IF s = <<"+">> \/ s = <<"-">> THEN Err(ParseIntError("InvalidDigit"))
    ELSE IF Head(s) = "+" THEN ParseDigitsI32(Tail(s), 0, FALSE)
    ELSE IF Head(s) = "-" THEN ParseDigitsI32(Tail(s), 0, TRUE)
    ELSE ParseDigitsI32(s, 0, FALSE)

\* a u32 value as two 16-bit halves: hi * 65536 + lo
U32(n) == [hi |-> n \div Limb, lo |-> n % Limb]

RECURSIVE ParseDigitsU32(_, _)
\* the checked digit loop of u32::from_str
ParseDigitsU32(s, acc) ==
    IF s = <<>> THEN Ok(acc)
    ELSE IF ~IsDigit(Head(s)) THEN Err(ParseIntError("InvalidDigit"))
    ELSE LET lo == acc.lo * 10 + DigitVal(Head(s))
             hi == acc.hi * 10 + lo \div Limb
         IN  IF hi >= Limb THEN Err(ParseIntError("PosOverflow"))
             ELSE ParseDigitsU32(Tail(s), [hi |-> hi, lo |-> lo % Limb])

\* str::parse::<u32>: a leading "-" is not a sign but an invalid digit
ParseU32(s) ==
    IF s = <<>> THEN Err(ParseIntError("Empty"))
    ELSE IF s = <<"+">> \/ s = <<"-">> THEN Err(ParseIntError("InvalidDigit"))
    ELSE IF Head(s) = "+" THEN ParseDigitsU32(Tail(s), U32(0))
    ELSE ParseDigitsU32(s, U32(0))

RECURSIVE StripLeadingZeros(_)
StripLeadingZeros(ds) ==
    IF ds # <<>> /\ Head(ds) = "0" THEN StripLeadingZeros(Tail(ds)) ELSE ds

RECURSIVE StripTrailingZeros(_)
StripTrailingZeros(ds) ==
    IF ds # <<>> /\ ds[Len(ds)] = "0"
    THEN StripTrailingZeros(SubSeq(ds, 1, Len(ds) - 1))
    ELSE ds

AllDigits(ds) == \A k \in 1..Len(ds) : IsDigit(ds[k])

\* str::parse::<f32> on plain decimal notation: an optional sign, digits
\* with at most one "." and at least one digit (the texts the model draws
\* hold no exponent, inf or nan).  The value is kept as the exact decimal
\* [neg, int, frac]: integer digits without leading zeros, fraction digits
\* without trailing zeros
ParseF32(s) ==
    IF s = <<>> THEN Err(ParseFloatError("Empty"))
    ELSE LET neg   == Head(s) = "-"
             body  == IF Head(s) \in {"+", "-"} THEN Tail(s) ELSE s
             parts == Split(body, ".")
             int   == parts[1]
             frac  == IF Len(parts) = 2 THEN parts[2] ELSE <<>>
         IN  IF Len(parts) > 2 \/ ~AllDigits(int) \/ ~AllDigits(frac)
                  \/ (int = <<>> /\ frac = <<>>)
             THEN Err(ParseFloatError("Invalid"))
             ELSE Ok([neg |-> neg, int |-> StripLeadingZeros(int),
                      frac |-> StripTrailingZeros(frac)])

\* 0.0_f32
F32Zero == [neg |-> FALSE, int |-> <<>>, frac |-> <<>>]

(***************************************************************************)
(* Rows and their markup                                                   *)
(***************************************************************************)
\* an element child <td>text</td> / <th>text</th>, or a bare text node
Cell(name, text) == [name |-> name, text |-> text]

Td(text) == Cell("td", text)

Th(text) == Cell("th", text)

\* a text node between two cells
TextNode(text) == Cell("#text", text)

\* node.html() of a child node
NodeHtml(n) ==
    IF n.name = "#text" THEN n.text
    ELSE <<"<" \o n.name \o ">">> \o n.text \o <<"</" \o n.name \o ">">>

RECURSIVE ChildrenHtml(_)
ChildrenHtml(cells) ==
    IF cells = <<>> THEN <<>>
    ELSE NodeHtml(Head(cells)) \o ChildrenHtml(Tail(cells))

\* row.html(): the raw markup of the row
Html(row) == <<"<tr>">> \o ChildrenHtml(row) \o <<"</tr>">>

(***************************************************************************)
(* Field sub-parsers (src/parser.rs)                                       *)
(***************************************************************************)
None == [tag |-> "None"]

Some(v) == [tag |-> "Some", val |-> v]

\* parse_srv: "<child server number>-<generation>"
parse_srv(s) ==
    LET splitted == Split(s, "-")
    IN  IF 2 # Len(splitted) THEN Err(SrvFieldUnknownFormat(s))
        ELSE LET a == ParseI32(splitted[1])
                 b == ParseI32(splitted[2])
             IN  IF IsErr(a) THEN a
                 ELSE IF IsErr(b) THEN b
                 ELSE Ok(<<a.val, b.val>>)

\* parse_pid: "-" means dead process
parse_pid(s) ==
    IF s = <<"-">> THEN Ok(None)
    ELSE LET p == ParseI32(s)
         IN  IF IsErr(p) THEN p ELSE Ok(Some(p.val))

\* the match of parse_worker_status on the status character
StatusOfCode(code) ==
    CASE code = "_" -> Ok("Ready")
      [] code = "S" -> Ok("Starting")
      [] code = "R" -> Ok("BusyRead")
      [] code = "W" -> Ok("BusyWrite")
      [] code = "K" -> Ok("BusyKeepAlive")
      [] code = "L" -> Ok("BusyLog")
      [] code = "D" -> Ok("BusyDns")
      [] code = "C" -> Ok("Closing")
      [] code = "." -> Ok("Dead")
      [] code = "G" -> Ok("Graceful")
      [] code = "I" -> Ok("IdleKill")
      [] OTHER -> Err(InvalidStatusCode(code))

\* parse_worker_status: s.len() is the length in bytes
parse_worker_status(s) ==
    IF 1 # ByteLen(s) THEN Err(StatusCodeMustBeChar(s))
    ELSE StatusOfCode(s[1])

\* parse_acc: "connection/child/slot"
parse_acc(s) ==
    LET parts == Split(s, "/")
    IN  IF Len(parts) # 3 THEN Err(AccessCountsInvalidFieldCount(s))
        ELSE LET connection == ParseU32(parts[1])
                 child      == ParseU32(parts[2])
                 slot       == ParseU32(parts[3])
             IN  IF IsErr(connection) THEN connection
                 ELSE IF IsErr(child) THEN child
                 ELSE IF IsErr(slot) THEN slot
                 ELSE Ok([connection |-> connection.val,
                          child |-> child.val, slot |-> slot.val])

(***************************************************************************)
(* parse_row                                                               *)
(***************************************************************************)
\* row.children().map(|td| td.text().trim().to_string()).collect()
TrimmedTexts(row) == [k \in 1..Len(row) |-> Trim(row[k].text)]

\* Vec::insert(index, element), index counted from 0
InsertAt(cols, index, e) ==
    SubSeq(cols, 1, index) \o <<e>> \o SubSeq(cols, index + 1, Len(cols))

\* the WorkerScore literal of parse_row over the 15 normalised columns;
\* the fields are evaluated in source order and the first failure returns
DecodeCols(cols) ==
    LET srv    == parse_srv(cols[1])
        pid    == parse_pid(cols[2])
        acc    == parse_acc(cols[3])
        status == parse_worker_status(cols[4])
        cpu    == ParseF32(cols[5])
        ss     == ParseU32(cols[6])
        req    == ParseU32(cols[7])
        dur    == ParseU32(cols[8])
        conn   == ParseF32(cols[9])
        childm == ParseF32(cols[10])
        slotm  == ParseF32(cols[11])
    IN  IF IsErr(srv) THEN srv
        ELSE IF IsErr(pid) THEN pid
        ELSE IF IsErr(acc) THEN acc
        ELSE IF IsErr(status) THEN status
        ELSE IF IsErr(cpu) THEN cpu
        ELSE IF IsErr(ss) THEN ss
        ELSE IF IsErr(req) THEN req
        ELSE IF IsErr(dur) THEN dur
        ELSE IF IsErr(conn) THEN conn
        ELSE IF IsErr(childm) THEN childm
        ELSE IF IsErr(slotm) THEN slotm
        ELSE Ok([generation      |-> srv.val[2],
                 pid             |-> pid.val,
                 access_counts   |-> acc.val,
                 status          |-> status.val,
                 cpu             |-> cpu.val,
                 seconds_since_s |-> ss.val,
                 request_time_ms |-> req.val,
                 duration_ms     |-> dur.val,
                 conn_kib        |-> conn.val,
                 child_mib       |-> childm.val,
                 slot_mib        |-> slotm.val,
                 client          |-> cols[12],
                 protocol        |-> cols[13],
                 vhost           |-> cols[14],
                 request         |-> cols[15]])

\* parse_row with the dummy field inserted one column too late
parse_row_InsertAfterCpu(row) ==
    LET cols == TrimmedTexts(row)
    IN  CASE Len(row) = 15 -> DecodeCols(cols)
          [] Len(row) = 14 -> DecodeCols(InsertAt(cols, 5, <<"0">>))
          [] OTHER -> Err(InvalidCellCount(Html(row)))

\* parse_row accepting any row of at least 15 cells
parse_row_AtLeast15(row) ==
    LET cols == TrimmedTexts(row)
    IN  CASE Len(row) >= 15 -> DecodeCols(cols)
          [] Len(row) = 14 -> DecodeCols(InsertAt(cols, 4, <<"0">>))
          [] OTHER -> Err(InvalidCellCount(Html(row)))

\* parse_row: 15 cells, or 14 with a dummy "0" in place of "CPU"
parse_row(row) ==
    LET cols == TrimmedTexts(row)
    IN  CASE Len(row) = 15 -> DecodeCols(cols)
          [] Len(row) = 14 -> DecodeCols(InsertAt(cols, 4, <<"0">>))
          [] OTHER -> Err(InvalidCellCount(Html(row)))

(***************************************************************************)
(* validate_headers                                                        *)
(***************************************************************************)
VALID_HEADERS ==
    << <<"S", "r", "v">>,
       <<"P", "I", "D">>,
       <<"A", "c", "c">>,
       <<"M">>,
       <<"C", "P", "U">>,
       <<"S", "S">>,
       <<"R", "e", "q">>,
       <<"D", "u", "r">>,
       <<"C", "o", "n", "n">>,
       <<"C", "h", "i", "l", "d">>,
       <<"S", "l", "o", "t">>,
       <<"C", "l", "i", "e", "n", "t">>,
       <<"P", "r", "o", "t", "o", "c", "o", "l">>,
       <<"V", "H", "o", "s", "t">>,
       <<"R", "e", "q", "u", "e", "s", "t">> >>

Min(a, b) == IF a < b THEN a ELSE b

\* validate_headers insisting on all fifteen columns
validate_headers_ExactLength(row) ==
    LET result == /\ Len(row) = Len(VALID_HEADERS)
                  /\ \A k \in 1..Len(VALID_HEADERS) :
                        Trim(row[k].text) = VALID_HEADERS[k]
    IN  IF result THEN Ok(<<>>) ELSE Err(InvalidHeaders)

\* row.children().zip(VALID_HEADERS.iter()).all(...): the zip stops at the
\* shorter of the two sequences
validate_headers(row) ==
    LET result == \A k \in 1..Min(Len(row), Len(VALID_HEADERS)) :
                      Trim(row[k].text) = VALID_HEADERS[k]
    IN  IF result THEN Ok(<<>>) ELSE Err(InvalidHeaders)

(***************************************************************************)
(* Input documents.  A document is the sequence of its tables in document  *)
(* order; a table is [border, rows] with border the value of its border    *)
(* attribute ("none" when absent).                                         *)
(***************************************************************************)
Table(border, rows) == [border |-> border, rows |-> rows]

\* the header row of a server built with HAVE_TIMES
CanonicalHeader ==
    << Th(<<"S", "r", "v">>),
       Th(<<"P", "I", "D">>),
       Th(<<"A", "c", "c">>),
       Th(<<"M">>),
       Th(<<"C", "P", "U">>),
       Th(<<"S", "S">>),
       Th(<<"R", "e", "q">>),
       Th(<<"D", "u", "r">>),
       Th(<<"C", "o", "n", "n">>),
       Th(<<"C", "h", "i", "l", "d">>),
       Th(<<"S", "l", "o", "t">>),
       Th(<<"C", "l", "i", "e", "n", "t">>),
       Th(<<"P", "r", "o", "t", "o", "c", "o", "l">>),
       Th(<<"V", "H", "o", "s", "t">>),
       Th(<<"R", "e", "q", "u", "e", "s", "t">>) >>

\* the header row of a server built without HAVE_TIMES: no CPU column
NoCpuHeader ==
    << Th(<<"S", "r", "v">>),
       Th(<<"P", "I", "D">>),
       Th(<<"A", "c", "c">>),
       Th(<<"M">>),
       Th(<<"S", "S">>),
       Th(<<"R", "e", "q">>),
       Th(<<"D", "u", "r">>),
       Th(<<"C", "o", "n", "n">>),
       Th(<<"C", "h", "i", "l", "d">>),
       Th(<<"S", "l", "o", "t">>),
       Th(<<"C", "l", "i", "e", "n", "t">>),
       Th(<<"P", "r", "o", "t", "o", "c", "o", "l">>),
       Th(<<"V", "H", "o", "s", "t">>),
       Th(<<"R", "e", "q", "u", "e", "s", "t">>) >>

BadHeader ==
    << Th(<<"S", "r", "v">>),
       Th(<<"P", "I", "D">>),
       Th(<<"F", "o", "o">>) >>

GoodRow15a ==
    << Td(<<"3", "-", "7">>),
       Td(<<"1", "2", "3", "4">>),
       Td(<<"1", "0", "/", "5", "/", "2">>),
       Td(<<"W">>),
       Td(<<"0", ".", "2", "5">>),
       Td(<<"1", "2">>),
       Td(<<"3">>),
       Td(<<"4", "5">>),
       Td(<<"1", ".", "5">>),
       Td(<<"0", ".", "0", "2">>),
       Td(<<"7", ".", "1">>),
       Td(<<"1", "0", ".", "0", ".", "0", ".", "1">>),
       Td(<<"h", "t", "t", "p", "/", "1", ".", "1">>),
       Td(<<"a", ".", "o", "r", "g">>),
       Td(<<"G", "E", "T", " ", "/">>) >>

GoodRow15b ==
    << Td(<<"0", "-", "2">>),
       Td(<<"-">>),
       Td(<<"0", "/", "0", "/", "9">>),
       Td(<<"_">>),
       Td(<<"0">>),
       Td(<<"0">>),
       Td(<<"0">>),
       Td(<<"0">>),
       Td(<<"0", ".", "0">>),
       Td(<<"0", ".", "0">>),
       Td(<<"0", ".", "3">>),
       Td(<<":", ":", "1">>),
       Td(<<"h", "2">>),
       Td(<<"b", ".", "o", "r", "g">>),
       Td(<<"P", "O", "S", "T", " ", "/", "x">>) >>

GoodRow14 ==
    << Td(<<"1", "-", "7">>),
       Td(<<"7", "7">>),
       Td(<<"1", "/", "2", "/", "3">>),
       Td(<<"K">>),
       Td(<<"5">>),
       Td(<<"6">>),
       Td(<<"8">>),
       Td(<<"2", ".", "5">>),
       Td(<<"0", ".", "5">>),
       Td(<<"1", ".", "2", "5">>),
       Td(<<"1", "0", ".", "0", ".", "0", ".", "2">>),
       Td(<<"h", "t", "t", "p", "/", "1", ".", "1">>),
       Td(<<"a", ".", "o", "r", "g">>),
       Td(<<"G", "E", "T", " ", "/", "y">>) >>

BadSrvRow ==
    << Td(<<"3", "7">>),
       Td(<<"1", "2", "3", "4">>),
       Td(<<"1", "0", "/", "5", "/", "2">>),
       Td(<<"W">>),
       Td(<<"0", ".", "2", "5">>),
       Td(<<"1", "2">>),
       Td(<<"3">>),
       Td(<<"4", "5">>),
       Td(<<"1", ".", "5">>),
       Td(<<"0", ".", "0", "2">>),
       Td(<<"7", ".", "1">>),
       Td(<<"1", "0", ".", "0", ".", "0", ".", "1">>),
       Td(<<"h", "t", "t", "p", "/", "1", ".", "1">>),
       Td(<<"a", ".", "o", "r", "g">>),
       Td(<<"G", "E", "T", " ", "/">>) >>

ShortRow ==
    << Td(<<"3", "-", "7">>),
       Td(<<"1", "2", "3", "4">>),
       Td(<<"1", "0", "/", "5", "/", "2">>),
       Td(<<"W">>),
       Td(<<"0", ".", "2", "5">>),
       Td(<<"1", "2">>),
       Td(<<"3">>),
       Td(<<"4", "5">>),
       Td(<<"1", ".", "5">>),
       Td(<<"0", ".", "0", "2">>),
       Td(<<"7", ".", "1">>),
       Td(<<"1", "0", ".", "0", ".", "0", ".", "1">>),
       Td(<<"h", "t", "t", "p", "/", "1", ".", "1">>) >>

CellTexts ==
    { <<>>,
      <<"-">>,
      <<"x">>,
      <<"3", "-", "7">>,
      <<"3", "-", "7", "-", "1">>,
      <<"3", "7">>,
      <<"-", "1", "-", "2">>,
      <<"3", "-">>,
      <<"2", "1", "4", "7", "4", "8", "3", "6", "4", "8", "-", "1">>,
      <<"1", "-", "2", "1", "4", "7", "4", "8", "3", "6", "4", "8">>,
      <<"1", "2", "3", "4">>,
      <<" ", "1", "2", " ">>,
      <<"-", "5">>,
      <<"+", "3">>,
      <<"1", "0", "/", "5", "/", "2">>,
      <<"1", "0", "/", "5">>,
      <<"1", "0", "/", "-", "5", "/", "2">>,
      <<"4", "2", "9", "4", "9", "6", "7", "2", "9", "6">>,
      <<"2", "1", "4", "7", "4", "8", "3", "6", "4", "8">>,
      <<"0", ".", "5">>,
      <<"1", ".">>,
      <<".">>,
      <<"1", ".", "2", ".", "3">>,
      <<"Z">>,
      <<"W", "W">>,
      <<"U+00E9">>,
      <<"_">>,
      <<"0">> }

WrongHeaderTexts ==
    { <<>>,
      <<"C", "P", "U">>,
      <<"S", "S">>,
      <<"s", "r", "v">>,
      <<"S", "r", "v">>,
      <<"X">>,
      <<"R", "e", "q", "u", "e", "s", "t">> }

StatusAlphabet ==
    {"_", "S", "R", "W", "K", "L", "D", "C", ".", "G", "I", "Z", "w", "U+00E9", " "}

\* all sequences over S of length at most n
SeqsUpTo(S, n) == UNION {[1..m -> S] : m \in 0..n}

Replace(row, k, cell) == [j \in 1..Len(row) |-> IF j = k THEN cell ELSE row[j]]

Prefix(row, n) == SubSeq(row, 1, Min(n, Len(row)))

\* k extra cells after the last column
Extra(k) == [j \in 1..k |-> Td(<<"x">>)]

Pad(kind, text) ==
    CASE kind = "spaces"  -> <<" ">> \o text \o <<" ", " ">>
      [] kind = "newline" -> <<"\n", "\t">> \o text \o <<"\n">>
      [] OTHER -> text

\* rows of the tables that exercise the row loop
LoopRows ==
    {CanonicalHeader, NoCpuHeader, BadHeader, GoodRow15a, GoodRow15b,
     GoodRow14, BadSrvRow, ShortRow}

\* tables that come before the last one of a document
LeadTables ==
    {Table("none", <<BadHeader, GoodRow15b>>), Table("0", <<CanonicalHeader>>)}

\* a document of up to MaxTables tables, the last one with any border
\* attribute and up to MaxRows rows
LoopDocument(lead, b, rows) == lead \o <<Table(b, rows)>>

\* a header row: the names of base, cut to n cells or extended, cell k
\* replaced by w, all cells padded with whitespace as p says
HeaderRow(base, n, k, w, p) ==
    [j \in 1..n |-> Th(Pad(p, Replace(base \o Extra(n), k, Th(w))[j].text))]

\* a data row: the well-formed row base cut to n cells or extended, cell k
\* replaced by v
DataRow(base, n, k, v) == Prefix(Replace(base \o Extra(n), k, Td(v)), n)

\* a row whose M cell holds the text s
StatusRow(s) == Replace(GoodRow15b, 4, Td(s))

\* rows with the whitespace between two tags as a child of its own
TextNodeRows ==
    {Append(GoodRow15a, TextNode(<<"\n">>)),
     <<TextNode(<<"\n", " ">>)>> \o GoodRow14}

\* a document with one border-0 table of a header and one data row
RowDocument(header, row) == <<Table("0", <<header, row>>)>>

\* the documents the model reads
IsInput(doc) ==
    \/ doc = <<>>
    \/ \E lead \in SeqsUpTo(LeadTables, MaxTables - 1), b \in {"0", "1", "none"},
          rows \in SeqsUpTo(LoopRows, MaxRows) :
          doc = LoopDocument(lead, b, rows)
    \/ \E base \in {CanonicalHeader, NoCpuHeader}, n \in 0..MaxHeaderCells,
          k \in 0..MaxHeaderCells, w \in WrongHeaderTexts,
          p \in {"none", "spaces", "newline"}, r \in {GoodRow15a, GoodRow14} :
          doc = RowDocument(HeaderRow(base, n, k, w, p), r)
    \/ \E base \in {GoodRow15a, GoodRow14}, n \in 0..MaxCells,
          k \in 0..MaxCells, v \in CellTexts :
          doc = RowDocument(CanonicalHeader, DataRow(base, n, k, v))
    \/ \E s \in SeqsUpTo(StatusAlphabet, MaxStatusLen) :
          doc = RowDocument(CanonicalHeader, StatusRow(s))
    \/ \E r \in TextNodeRows : doc = RowDocument(CanonicalHeader, r)

RECURSIVE Locate_AnyTable(_)
\* the row locator without the border="0" test
Locate_AnyTable(doc) ==
    IF doc = <<>> THEN <<>>
    ELSE Head(doc).rows \o Locate_AnyTable(Tail(doc))

\* document.find(TR_PREDICATE): the tr descendants of every table with
\* border="0", in document order
RECURSIVE Locate(_)
Locate(doc) ==
    IF doc = <<>> THEN <<>>
    ELSE (IF Head(doc).border = "0" THEN Head(doc).rows ELSE <<>>)
         \o Locate(Tail(doc))

(***************************************************************************)
(* The program: main (src/main.rs) calling parse_worker_scores             *)
(***************************************************************************)
VARIABLES
    document,   \* the parsed input document
    pc,         \* "loop": in the for loop of parse_worker_scores;
                \* "returned": parse_worker_scores returned to main;
                \* "exited": the process ended
    i,          \* the enumerate() index of the next row
    scores,     \* the Vec<WorkerScore> under construction
    hdrResult,  \* what validate_headers returned, NotCalled before the call
    rowResult,  \* what the last parse_row call returned
    decoded,    \* the indices of the rows parse_row was called on, in order
    result,     \* the return value of parse_worker_scores
    stdout,     \* lines printed with println!
    stderr,     \* lines printed with eprintln!
    exit_code   \* the exit status of the process, None while it runs

vars == <<document, pc, i, scores, hdrResult, rowResult, decoded, result,
          stdout, stderr, exit_code>>

NotCalled == [tag |-> "NotCalled"]

Pending == [tag |-> "Pending"]

\* the located row sequence of the input
Rows == Locate(document)

\* the #[error("...")] messages of WorkerScoreParseError, with ' written
\* for the backquote
Display(e) ==
    CASE e.kind = "InvalidHeaders" -> <<"invalid headers">>
      [] e.kind = "InvalidCellCount" -> <<"invalid cell count: ">> \o e.arg
      [] e.kind = "StatusCodeMustBeChar" ->
            <<"status code must be exactly one character long: '">> \o e.arg \o <<"'">>
      [] e.kind = "InvalidStatusCode" -> <<"invalid status code '">> \o e.arg \o <<"'">>
      [] e.kind = "AccessCountsInvalidFieldCount" ->
            <<"invalid field count when parsing '">> \o e.arg \o <<"', expected '1/2/3'">>
      [] e.kind = "SrvFieldUnknownFormat" ->
            <<"the Srv column is not in format 'x-x': '">> \o e.arg \o <<"'">>
      [] OTHER -> e.arg

\* eprintln!("Error: {}", e)
ErrorLine(e) == <<"Error: ">> \o Display(e)

\* println!("Row: {}", row.html())
RowLine(row) == [fmt |-> "Row: {}", html |-> Html(row)]

\* println!("{}", serde_json::to_string_pretty(&ServerStatus{workers}))
JsonLine(workers) == [fmt |-> "{}", server_status |-> [workers |-> workers]]

Init ==
    /\ IsInput(document)
    /\ pc = "loop"
    /\ i = 0
    /\ scores = <<>>
    /\ hdrResult = NotCalled
    /\ rowResult = NotCalled
    /\ decoded = <<>>
    /\ result = Pending
    /\ stdout = <<>>
    /\ stderr = <<>>
    /\ exit_code = None

\* iteration 0 without the "?": the loop goes on after invalid headers
ValidateHeadersStep_NoAbort ==
    /\ pc = "loop"
    /\ i = 0
    /\ i < Len(Rows)
    /\ hdrResult' = validate_headers(Rows[i + 1])
    /\ i' = i + 1
    /\ UNCHANGED <<document, pc, result, scores, rowResult, decoded, stdout,
                   stderr, exit_code>>

\* loop iteration 0: validate_headers(&row)?
ValidateHeadersStep ==
    /\ pc = "loop"
    /\ i = 0
    /\ i < Len(Rows)
    /\ LET r == validate_headers(Rows[i + 1])
       IN  /\ hdrResult' = r
           /\ IF IsErr(r)
              THEN /\ result' = r
                   /\ pc' = "returned"
                   /\ i' = i
              ELSE /\ i' = i + 1
                   /\ UNCHANGED <<result, pc>>
    /\ UNCHANGED <<document, scores, rowResult, decoded, stdout, stderr, exit_code>>

\* iteration i >= 1 putting the new score in front of the others
ParseRowStep_PushFront ==
    /\ pc = "loop"
    /\ i >= 1
    /\ i < Len(Rows)
    /\ LET row == Rows[i + 1]
           r   == parse_row(row)
       IN  /\ rowResult' = r
           /\ decoded' = Append(decoded, i)
           /\ IF IsOk(r)
              THEN /\ scores' = <<r.val>> \o scores
                   /\ i' = i + 1
                   /\ UNCHANGED <<pc, stdout, stderr, exit_code>>
              ELSE /\ stderr' = Append(stderr, ErrorLine(r.err))
                   /\ stdout' = Append(stdout, RowLine(row))
                   /\ exit_code' = Some(1)
                   /\ pc' = "exited"
                   /\ UNCHANGED <<scores, i>>
    /\ UNCHANGED <<document, hdrResult, result>>

\* loop iteration i >= 1: match parse_row(&row)
ParseRowStep ==
    /\ pc = "loop"
    /\ i >= 1
    /\ i < Len(Rows)
    /\ LET row == Rows[i + 1]
           r   == parse_row(row)
       IN  /\ rowResult' = r
           /\ decoded' = Append(decoded, i)
           /\ IF IsOk(r)
              THEN /\ scores' = Append(scores, r.val)
                   /\ i' = i + 1
                   /\ UNCHANGED <<pc, stdout, stderr, exit_code>>
              ELSE /\ stderr' = Append(stderr, ErrorLine(r.err))
                   /\ stdout' = Append(stdout, RowLine(row))
                   /\ exit_code' = Some(1)
                   /\ pc' = "exited"
                   /\ UNCHANGED <<scores, i>>
    /\ UNCHANGED <<document, hdrResult, result>>

\* the row iterator is exhausted: Ok(scores)
ReturnScores ==
    /\ pc = "loop"
    /\ i = Len(Rows)
    /\ result' = Ok(scores)
    /\ pc' = "returned"
    /\ UNCHANGED <<document, i, scores, hdrResult, rowResult, decoded,
                   stdout, stderr, exit_code>>

\* main, Err(e) arm: eprintln! and exit(1)
MainError ==
    /\ pc = "returned"
    /\ IsErr(result)
    /\ stderr' = Append(stderr, ErrorLine(result.err))
    /\ exit_code' = Some(1)
    /\ pc' = "exited"
    /\ UNCHANGED <<document, i, scores, hdrResult, rowResult, decoded,
                   result, stdout>>

\* main, Ok(workers) arm: print the ServerStatus as pretty JSON
MainPrint ==
    /\ pc = "returned"
    /\ IsOk(result)
    /\ stdout' = Append(stdout, JsonLine(result.val))
    /\ exit_code' = Some(0)
    /\ pc' = "exited"
    /\ UNCHANGED <<document, i, scores, hdrResult, rowResult, decoded,
                   result, stderr>>

Next ==
    \/ ValidateHeadersStep
    \/ ParseRowStep
    \/ ReturnScores
    \/ MainError
    \/ MainPrint

Spec == Init /\ [][Next]_vars

(***************************************************************************)
(* Properties                                                              *)
(***************************************************************************)
Finished == pc \in {"returned", "exited"}

\* the row of the last parse_row call
LastRow == Rows[decoded[Len(decoded)] + 1]

\* the data rows on which parse_row fails, by position in Rows
FailingRows == {k \in 2..Len(Rows) : IsErr(parse_row(Rows[k]))}

FirstFailingRow == CHOOSE k \in FailingRows : \A j \in FailingRows : k <= j

\* C1: row 0 is validated as the header before any data row is decoded, and
\* when validate_headers fails the result is InvalidHeaders, parse_row is
\* never called and no record is produced
C1_HeaderValidatedFirst ==
    /\ decoded # <<>> => IsOk(hdrResult)
    /\ IsErr(hdrResult) =>
          /\ Finished
          /\ result = Err(InvalidHeaders)
          /\ decoded = <<>>
          /\ rowResult = NotCalled
          /\ scores = <<>>

\* C1 witness: the run of a document with an invalid header and at least two
\* following rows has ended
C1_Witness ==
    /\ pc = "exited"
    /\ IsErr(hdrResult)
    /\ Len(Rows) >= 3

\* C2: parse_worker_scores returns either the complete sequence of decoded
\* records or the first error in row order; no bad row is skipped and no row
\* after the first failing row is decoded
C2_ReturnsAllOrFirstError ==
    Finished =>
       IF Rows # <<>> /\ IsErr(validate_headers(Rows[1]))
       THEN result = Err(InvalidHeaders) /\ decoded = <<>>
       ELSE IF FailingRows = {}
       THEN /\ result = Ok([k \in 1..(Len(Rows) - 1) |-> parse_row(Rows[k + 1]).val])
            /\ decoded = [k \in 1..(Len(Rows) - 1) |-> k]
       ELSE /\ result = Err(parse_row(Rows[FirstFailingRow]).err)
            /\ decoded = [k \in 1..(FirstFailingRow - 1) |-> k]

\* C3: on any parse error the program writes to the error channel, ends with
\* a non-zero status and writes nothing to standard output
C3_NoStdoutOnError ==
    (pc = "exited" /\ (IsErr(hdrResult) \/ IsErr(rowResult))) =>
       /\ stderr # <<>>
       /\ exit_code = Some(1)
       /\ stdout = <<>>

\* C4: a successful result holds one record per data row, the k-th record
\* being the decoding of the k-th data row; the header yields no record
C4_RecordsInRowOrder ==
    IsOk(result) =>
       /\ Len(result.val) = (IF Rows = <<>> THEN 0 ELSE Len(Rows) - 1)
       /\ \A k \in 1..Len(result.val) : parse_row(Rows[k + 1]) = Ok(result.val[k])

\* C4 witness: a successful result with two different records
C4_Witness ==
    /\ IsOk(result)
    /\ Len(result.val) >= 2
    /\ result.val[1] # result.val[2]

\* a well-formed row of 14 cells
WellFormed14(row) == Len(row) = 14 /\ IsOk(parse_row(row))

\* C5: a table whose header is the canonical names without CPU, followed by
\* well-formed 14-cell rows, parses to one record per data row with cpu 0.0
C5_HeaderWithoutCpuAccepted ==
    (/\ Finished
     /\ Len(Rows) >= 2
     /\ Rows[1] = NoCpuHeader
     /\ \A k \in 2..Len(Rows) : WellFormed14(Rows[k])) =>
       /\ IsOk(result)
       /\ Len(result.val) = Len(Rows) - 1
       /\ \A k \in 1..Len(result.val) : result.val[k].cpu = F32Zero

\* C6: parse_row on a row of 14 cells c0..c13 gives the result (record or
\* error) of parse_row on the 15 cells c0..c3,"0",c4..c13, and a record has
\* cpu 0.0
C6_FourteenCellsAsFifteen ==
    (decoded # <<>> /\ Len(LastRow) = 14) =>
       /\ rowResult = parse_row(InsertAt(LastRow, 4, Td(<<"0">>)))
       /\ IsOk(rowResult) => rowResult.val.cpu = F32Zero

\* C6 witness: a row of 14 cells was decoded into a record
C6_Witness ==
    /\ decoded # <<>>
    /\ Len(LastRow) = 14
    /\ IsOk(rowResult)

\* C7: parse_row on a row of neither 14 nor 15 cells fails with
\* InvalidCellCount carrying the row's markup, whatever the cells hold
C7_InvalidCellCount ==
    (decoded # <<>> /\ Len(LastRow) \notin {14, 15}) =>
       rowResult = Err(InvalidCellCount(Html(LastRow)))

\* C7 witness: parse_row was called on a row of more than 15 cells whose
\* Srv cell is malformed
C7_Witness ==
    /\ decoded # <<>>
    /\ Len(LastRow) > 15
    /\ IsErr(parse_srv(Trim(LastRow[1].text)))
    /\ IsErr(rowResult)

\* the header cells checked by position: those below min(cells, 15)
HeaderMismatches ==
    {k \in 1..Len(Rows[1]) :
        k <= 15 /\ Trim(Rows[1][k].text) # VALID_HEADERS[k]}

StatusCodes == {"_", "S", "R", "W", "K", "L", "D", "C", ".", "G", "I"}

\* the cells of the row other than M decode without error
OtherCellsDecode(row) == IsOk(parse_row(Replace(row, 4, Td(<<"_">>))))

\* C9: the eleven codes map to eleven distinct variants, any other single
\* character fails with InvalidStatusCode carrying it, and
\* StatusCodeMustBeChar is the result exactly when the text is not one
\* character long
C9_StatusCodeMapping ==
    /\ \A c, d \in StatusCodes :
          /\ IsOk(parse_worker_status(<<c>>))
          /\ c # d => parse_worker_status(<<c>>) # parse_worker_status(<<d>>)
    /\ (decoded # <<>> /\ Len(LastRow) = 15 /\ OtherCellsDecode(LastRow)) =>
          LET s == Trim(LastRow[4].text)
          IN  IF Len(s) # 1 THEN rowResult = Err(StatusCodeMustBeChar(s))
              ELSE IF s[1] \notin StatusCodes
              THEN rowResult = Err(InvalidStatusCode(s[1]))
              ELSE /\ IsOk(rowResult)
                   /\ rowResult.val.status = parse_worker_status(s).val

\* no table with border="0" holds a row
NoRowLocated ==
    \A t \in 1..Len(document) :
        document[t].border = "0" => document[t].rows = <<>>

\* C10: when no row lies under a border-0 table, no header is validated, the
\* result is the empty sequence and the program prints an envelope without
\* workers and exits with status 0; a valid header alone gives the empty
\* sequence too
C10_NoRowsIsSuccess ==
    /\ NoRowLocated =>
          /\ hdrResult = NotCalled
          /\ decoded = <<>>
          /\ Finished => result = Ok(<<>>)
          /\ pc = "exited" =>
                /\ stdout = <<JsonLine(<<>>)>>
                /\ stderr = <<>>
                /\ exit_code = Some(0)
    /\ (Finished /\ Len(Rows) = 1 /\ IsOk(hdrResult)) => result = Ok(<<>>)

\* C10 witness: the run of a document whose only rows lie in tables that are
\* not border-0 has ended
C10_Witness ==
    /\ pc = "exited"
    /\ NoRowLocated
    /\ \E t \in 1..Len(document) : document[t].rows # <<>>

====
